---- MODULE Spec2Model ----
(***************************************************************************)
(* A model of node-mplex: the frame codec (Encoder, Decoder, readVarInt),  *)
(* the per-stream state machine (createStream) and the multiplexer         *)
(* (MplexStreamMuxer).                                                     *)
(*                                                                         *)
(* Numbers that JavaScript passes through its 32-bit operators (<<, >>,    *)
(* >>>, &, |) are bit vectors here: sequences of 0/1, least significant    *)
(* bit first, so that the ToInt32 truncation of those operators is part of *)
(* the model.  A Uint8ArrayList is modelled by its content, a sequence of  *)
(* bytes.                                                                  *)
(***************************************************************************)
EXTENDS Integers, Sequences, FiniteSets, TLC

\* ------------------------------------------------------------------ bounds

\* Longest list of messages handed to the encoder in the codec specification.
MaxMsgs == 2

\* ------------------------------------------------------------ message types

NEW_STREAM == 0
MESSAGE_RECEIVER == 1
MESSAGE_INITIATOR == 2
CLOSE_RECEIVER == 3
CLOSE_INITIATOR == 4
RESET_RECEIVER == 5
RESET_INITIATOR == 6

\* MessageTypeNames: the types the decoder knows.
MessageTypeNames == 0..6

\* The types that carry a payload (encode.ts and decode.ts test the same three).
DataTypes == {NEW_STREAM, MESSAGE_INITIATOR, MESSAGE_RECEIVER}

\* A Message {id, type, data?}; hasData = FALSE is an absent data field.
Msg(id, type, hasData, data) ==
  [id |-> id, type |-> type, hasData |-> hasData, data |-> data]

\* ------------------------------------------------------------- bit vectors

RECURSIVE Bits(_)
\* The binary digits of a natural number, least significant first.
Bits(n) == IF n = 0 THEN <<>> ELSE <<n % 2>> \o Bits(n \div 2)

RECURSIVE BitsToNat(_)
\* The natural number a bit vector denotes (below 2^31 in every use).
BitsToNat(b) == IF b = <<>> THEN 0 ELSE b[1] + 2 * BitsToNat(Tail(b))

\* ToInt32 of a non-negative number: its low 32 bits.
ToInt32(b) == [i \in 1..32 |-> IF i <= Len(b) THEN b[i] ELSE 0]

\* x << k on 32 bits.
Shl32(w, k) == [i \in 1..32 |-> IF i <= k THEN 0 ELSE w[i - k]]

\* x | y on 32 bits.
Or32(a, b) == [i \in 1..32 |-> IF a[i] = 1 \/ b[i] = 1 THEN 1 ELSE 0]

\* x >>> k on 32 bits.
Shr32(w, k) == [i \in 1..32 |-> IF i + k <= 32 THEN w[i + k] ELSE 0]

\* The signed value of x >> 3 for a 32-bit x: bits 3..30, minus 2^28 when the sign bit is set.
Sar3Value(w) == BitsToNat(SubSeq(w, 4, 31)) - w[32] * 268435456

\* --------------------------------------------------------- Uint8ArrayList

\* sublist(start, end): the bytes start..end-1 (0-based).
Sublist(l, start, end) == SubSeq(l, start + 1, end)

\* consume(n): drop the first n bytes.
Consume(l, n) == SubSeq(l, n + 1, Len(l))

\* ------------------------------------------------------------------ varint

RECURSIVE VarintEncode(_)
\* varint.encode of a 32-bit pattern: while (num & ~0x7F) emit (num & 0xFF) | 0x80
\* and num >>>= 7; then emit num.  (Its first loop, num >= 2^31, never runs: the
\* argument is the int32 result of id << 3 | type, or a payload length.)
VarintEncode(w) ==
  IF \E i \in 8..32 : w[i] = 1
  THEN <<BitsToNat(SubSeq(w, 1, 7)) + 128>> \o VarintEncode(Shr32(w, 7))
  ELSE <<BitsToNat(SubSeq(w, 1, 7))>>

RECURSIVE ReadVarIntLoop(_, _, _, _)
\* The do-while of readVarInt: counter is the 0-based index of the next byte, res
\* the bits read so far (every group lands on 7 fresh bits, so adding is appending).
ReadVarIntLoop(buf, counter, shift, res) ==
  IF counter >= Len(buf) \/ shift > 49
  THEN [err |-> "RangeError", value |-> <<>>, counter |-> counter]
  ELSE LET b == buf[counter + 1]
           res2 == res \o SubSeq(ToInt32(Bits(b)), 1, 7)
       IN IF b >= 128
          THEN ReadVarIntLoop(buf, counter + 1, shift + 7, res2)
          ELSE [err |-> "none", value |-> res2, counter |-> counter + 1]

\* readVarInt(buf, offset): the value and the number of bytes read.
ReadVarInt(buf, offset) ==
  LET r == ReadVarIntLoop(buf, offset, 0, <<>>)
  IN [err |-> r.err, value |-> r.value, offset |-> r.counter - offset]

\* ----------------------------------------------------------------- encoder

POOL_SIZE == 10240

\* The header word id << 3 | type as an int32.
HeaderWord(id, type) == Or32(Shl32(ToInt32(Bits(id)), 3), ToInt32(Bits(type)))

EncodesData(msg) == msg.type \in DataTypes /\ msg.hasData

\* The header chunk: varint(id << 3 | type) then varint(data.length or 0).
EncodeHeader(msg) ==
  VarintEncode(HeaderWord(msg.id, msg.type))
    \o VarintEncode(ToInt32(Bits(IF EncodesData(msg) THEN Len(msg.data) ELSE 0)))

\* Encoder.write: the chunks of one message, the header and then the payload.
EncoderWrite(msg) ==
  IF EncodesData(msg) THEN <<EncodeHeader(msg), msg.data>> ELSE <<EncodeHeader(msg)>>

\* The pool offset after a write that started at poolOffset.
EncoderPoolOffset(poolOffset, msg) ==
  LET offset == poolOffset + Len(EncodeHeader(msg))
  IN IF POOL_SIZE - offset < 100 THEN 0 ELSE offset

RECURSIVE Flatten(_)
\* uint8ArrayConcat: the bytes of a list of chunks.
Flatten(chunks) == IF chunks = <<>> THEN <<>> ELSE Head(chunks) \o Flatten(Tail(chunks))

\* ----------------------------------------------------------------- decoder

NoHeader == [set |-> FALSE, id |-> 0, type |-> 0, offset |-> 0, length |-> 0]

\* A fresh Decoder: an empty buffer and no header.
NewDecoder == [buffer |-> <<>>, headerInfo |-> NoHeader]

\* Decoder._decodeHeader: two varints, then the type check.
DecodeHeader(data) ==
  LET h == ReadVarInt(data, 0)
      l == ReadVarInt(data, h.offset)
      w == ToInt32(h.value)
      type == BitsToNat(SubSeq(w, 1, 3))
  IN IF h.err # "none" THEN [err |-> h.err, header |-> NoHeader]
     ELSE IF l.err # "none" THEN [err |-> l.err, header |-> NoHeader]
     ELSE IF type \notin MessageTypeNames THEN [err |-> "InvalidType", header |-> NoHeader]
     ELSE [err |-> "none",
           header |-> [set |-> TRUE, id |-> Sar3Value(w), type |-> type,
                       offset |-> h.offset + l.offset, length |-> BitsToNat(l.value)]]

RECURSIVE DecoderLoop(_, _)
\* The while loop of Decoder.write.  Every error of _decodeHeader is caught and
\* breaks the loop, so the call returns normally (err stays "none").
DecoderLoop(d, msgs) ==
  IF Len(d.buffer) = 0 THEN [decoder |-> d, msgs |-> msgs, err |-> "none"]
  ELSE
    LET dh == IF d.headerInfo.set THEN [err |-> "none", header |-> d.headerInfo]
              ELSE DecodeHeader(d.buffer)
        hi == dh.header
    IN IF dh.err # "none" THEN [decoder |-> d, msgs |-> msgs, err |-> "none"]
       ELSE IF Len(d.buffer) - hi.offset < hi.length
       THEN [decoder |-> [d EXCEPT !.headerInfo = hi], msgs |-> msgs, err |-> "none"]
       ELSE LET msg == IF hi.type \in DataTypes
                       THEN Msg(hi.id, hi.type, TRUE,
                                Sublist(d.buffer, hi.offset, hi.offset + hi.length))
                       ELSE Msg(hi.id, hi.type, FALSE, <<>>)
            IN DecoderLoop([buffer |-> Consume(d.buffer, hi.offset + hi.length),
                            headerInfo |-> NoHeader],
                           Append(msgs, msg))

\* Decoder.write(chunk): the decoder after the call, the messages returned and the
\* error thrown ("none": the call returned).
DecoderWrite(d, chunk) ==
  IF Len(chunk) = 0 THEN [decoder |-> d, msgs |-> <<>>, err |-> "none"]
  ELSE DecoderLoop([d EXCEPT !.buffer = d.buffer \o chunk], <<>>)

\* ---------------------------------------------------------- configuration

\* The muxer's init options, scaled down (the defaults are 1 MiB, 1024, 1024, 4 MiB, 5).
MaxMsgSize == 2
MaxInboundStreams == 1
MaxOutboundStreams == 1
MaxStreamBufferSize == 2
DisconnectThreshold == 1

\* MplexInit, as the constructor keeps it in this._init.
MplexInit ==
  [maxMsgSize |-> MaxMsgSize, maxInboundStreams |-> MaxInboundStreams,
   maxOutboundStreams |-> MaxOutboundStreams, maxStreamBufferSize |-> MaxStreamBufferSize,
   disconnectThreshold |-> DisconnectThreshold]

\* -------------------------------------------------------------- variables

VARIABLES
  mux,      \* per muxer: the fields of MplexStreamMuxer, its streams, its write in progress
  lastErr,  \* the error the last newStream call threw ("none": it returned)
  obs,      \* what the claims observe of a run
  codec     \* the standalone Encoder and Decoder of the codec specification

vars == <<mux, lastErr, obs, codec>>

\* ------------------------------------------------------- node stream.Duplex

\* Readable.push(chunk) on a stream: an error (and destroy) after EOF, dropped once
\* destroyed, appended to the readable buffer otherwise.
NodePush(s, chunk) ==
  IF s.eof THEN (IF s.destroyed THEN s
                 ELSE [s EXCEPT !.destroyed = TRUE, !.destroyErr = "ERR_STREAM_PUSH_AFTER_EOF"])
  ELSE IF s.destroyed THEN s
  ELSE [s EXCEPT !.rbuf = s.rbuf \o chunk]

\* Readable.push(null): the readable side has ended.
NodePushEof(s) == [s EXCEPT !.eof = TRUE]

\* Duplex.destroy(err): once only.
NodeDestroy(s, err) ==
  IF s.destroyed THEN s ELSE [s EXCEPT !.destroyed = TRUE, !.destroyErr = err]

\* ------------------------------------------------------------------ stream

\* The state createStream sets up: the latches, the pending outbound bytes and the
\* Duplex under them.
NewStreamState(id, name, type) ==
  [id |-> id, name |-> name, type |-> type,
   readableLength |-> 0, sourceEnded |-> FALSE, sinkEnded |-> FALSE, endErr |-> "none",
   uint8ArrayList |-> <<>>,
   rbuf |-> <<>>, eof |-> FALSE,
   wEnded |-> FALSE, destroyed |-> FALSE, destroyErr |-> "none"]

\* Types: InitiatorMessageTypes or ReceiverMessageTypes.
TypesMESSAGE(type) == IF type = "initiator" THEN MESSAGE_INITIATOR ELSE MESSAGE_RECEIVER
TypesCLOSE(type) == IF type = "initiator" THEN CLOSE_INITIATOR ELSE CLOSE_RECEIVER
TypesRESET(type) == IF type = "initiator" THEN RESET_INITIATOR ELSE RESET_RECEIVER

\* The chunks Readable.push keeps of a list of chunks: an empty chunk adds nothing.
NonEmptyChunks(chunks) == SelectSeq(chunks, LAMBDA c : c # <<>>)

\* MplexStreamMuxer.pushToSink: encode the message and push every chunk on the
\* muxer's readable side (Readable.push drops chunks once the muxer is destroyed).
\* sink holds the messages pushed in the current step, wire the chunks not yet
\* taken by the transport the muxer is piped to.
PushToSink(mx, msg) ==
  IF mx.destroyed THEN mx
  ELSE [mx EXCEPT !.sink = Append(mx.sink, msg),
                  !.wire = IF mx.piped THEN mx.wire \o NonEmptyChunks(EncoderWrite(msg))
                           ELSE mx.wire]

\* The send closure _newStream gives the stream; sent holds the messages the
\* streams handed to it in the current step.
Send(mx, msg) == PushToSink([mx EXCEPT !.sent = Append(mx.sent, msg)], msg)

\* The registry of a stream type.
Registry(mx, type) == IF type = "initiator" THEN mx.initiators ELSE mx.receivers

\* registry.delete(id)
RegistryDelete(mx, type, id) ==
  IF type = "initiator"
  THEN [mx EXCEPT !.initiators = [k \in DOMAIN mx.initiators \ {id} |-> mx.initiators[k]]]
  ELSE [mx EXCEPT !.receivers = [k \in DOMAIN mx.receivers \ {id} |-> mx.receivers[k]]]

\* registry.set(id, stream)
RegistrySet(mx, type, id, i) ==
  IF type = "initiator"
  THEN [mx EXCEPT !.initiators = [k \in DOMAIN mx.initiators \cup {id} |->
                                    IF k = id THEN i ELSE mx.initiators[k]]]
  ELSE [mx EXCEPT !.receivers = [k \in DOMAIN mx.receivers \cup {id} |->
                                   IF k = id THEN i ELSE mx.receivers[k]]]

\* An onEnd that calls onStreamEnd and leaves the registry as it is.
OnEndKeeping(mx, i) ==
  [mx EXCEPT !.events = Append(mx.events, [ev |-> "onStreamEnd", stream |-> i])]

\* The onEnd closure of _newStream: drop the id from the registry, call onStreamEnd.
OnEnd(mx, i) ==
  LET s == mx.streams[i]
      mx1 == RegistryDelete(mx, s.type, s.id)
  IN [mx1 EXCEPT !.events = Append(mx1.events, [ev |-> "onStreamEnd", stream |-> i])]

\* An onSourceEnd that calls onEnd without looking at the sink.
OnSourceEndEager(mx, i, err) ==
  LET s == mx.streams[i]
  IN IF s.sourceEnded THEN mx
     ELSE LET mx1 == [mx EXCEPT !.streams[i].sourceEnded = TRUE,
                                !.streams[i].endErr =
                                   IF err # "none" /\ s.endErr = "none" THEN err ELSE s.endErr]
          IN OnEnd([mx1 EXCEPT !.streams[i] = NodeDestroy(mx1.streams[i], err)], i)

\* onSourceEnd(err)
OnSourceEnd(mx, i, err) ==
  LET s == mx.streams[i]
  IN IF s.sourceEnded THEN mx
     ELSE LET mx1 == [mx EXCEPT !.streams[i].sourceEnded = TRUE,
                                !.streams[i].endErr =
                                   IF err # "none" /\ s.endErr = "none" THEN err ELSE s.endErr]
          IN IF s.sinkEnded
             THEN OnEnd([mx1 EXCEPT !.streams[i] = NodeDestroy(mx1.streams[i], err)], i)
             ELSE mx1

\* onSinkEnd(err)
OnSinkEnd(mx, i, err) ==
  LET s == mx.streams[i]
  IN IF s.sinkEnded THEN mx
     ELSE LET mx1 == [mx EXCEPT !.streams[i].sinkEnded = TRUE,
                                !.streams[i].endErr =
                                   IF err # "none" /\ s.endErr = "none" THEN err ELSE s.endErr]
          IN IF s.sourceEnded
             THEN OnEnd([mx1 EXCEPT !.streams[i] = NodeDestroy(mx1.streams[i], err)], i)
             ELSE mx1

\* onFinal: send CLOSE, then end the sink.
OnFinal(mx, i) ==
  LET s == mx.streams[i]
  IN OnSinkEnd(Send(mx, Msg(s.id, TypesCLOSE(s.type), FALSE, <<>>)), i, "none")

\* A write handler that does not fragment: the pending list goes out as one message.
WriteWhole(mx, i) ==
  LET s == mx.streams[i]
  IN IF Len(s.uint8ArrayList) = 0 THEN mx
     ELSE [Send(mx, Msg(s.id, TypesMESSAGE(s.type), TRUE, s.uint8ArrayList))
             EXCEPT !.streams[i].uint8ArrayList = <<>>]

RECURSIVE WriteLoop(_, _)
\* The while loop of the Duplex write handler: one MESSAGE per maxMsgSize bytes of
\* the pending list, the last one with what is left.
WriteLoop(mx, i) ==
  LET s == mx.streams[i]
      l == s.uint8ArrayList
  IN IF Len(l) = 0 THEN mx
     ELSE IF Len(l) <= mx.init.maxMsgSize
     THEN [Send(mx, Msg(s.id, TypesMESSAGE(s.type), TRUE, Sublist(l, 0, Len(l))))
             EXCEPT !.streams[i].uint8ArrayList = Consume(l, Len(l))]
     ELSE WriteLoop([Send(mx, Msg(s.id, TypesMESSAGE(s.type), TRUE,
                                  Sublist(l, 0, mx.init.maxMsgSize)))
                       EXCEPT !.streams[i].uint8ArrayList = Consume(l, mx.init.maxMsgSize)], i)

\* The Duplex write handler: append the data, drain the list, call back.
StreamWrite(mx, i, data) ==
  WriteLoop([mx EXCEPT !.streams[i].uint8ArrayList = mx.streams[i].uint8ArrayList \o data], i)

\* The Duplex read handler.
StreamRead(mx, i, size) == [mx EXCEPT !.streams[i].readableLength = size]

\* A closeRead that closes the write side as well.
CloseReadBoth(mx, i) ==
  IF mx.streams[i].sourceEnded THEN mx
  ELSE LET mx1 == OnSourceEnd([mx EXCEPT !.streams[i] = NodePushEof(mx.streams[i])], i, "none")
           s == mx1.streams[i]
       IN IF s.sinkEnded THEN mx1
          ELSE OnSinkEnd(Send(mx1, Msg(s.id, TypesCLOSE(s.type), FALSE, <<>>)), i, "none")

\* closeRead
CloseRead(mx, i) ==
  IF mx.streams[i].sourceEnded THEN mx
  ELSE OnSourceEnd([mx EXCEPT !.streams[i] = NodePushEof(mx.streams[i])], i, "none")

\* closeWrite
CloseWrite(mx, i) ==
  LET s == mx.streams[i]
  IN IF s.sinkEnded THEN mx
     ELSE OnSinkEnd(Send(mx, Msg(s.id, TypesCLOSE(s.type), FALSE, <<>>)), i, "none")

\* close: closeRead, then closeWrite
StreamClose(mx, i) == CloseWrite(CloseRead(mx, i), i)

\* abort(err)
StreamAbort(mx, i, err) == OnSinkEnd(OnSourceEnd(mx, i, "none"), i, err)

\* A reset that answers with a RESET frame of its own.
StreamResetEchoing(mx, i) ==
  LET s == mx.streams[i]
  IN OnSinkEnd(OnSourceEnd(Send(mx, Msg(s.id, TypesRESET(s.type), FALSE, <<>>)),
                           i, "ERR_STREAM_RESET"), i, "ERR_STREAM_RESET")

\* reset
StreamReset(mx, i) ==
  OnSinkEnd(OnSourceEnd(mx, i, "ERR_STREAM_RESET"), i, "ERR_STREAM_RESET")

\* sourcePush(data): push every chunk of the list (the list is modelled by its
\* content; an empty list has no chunk).
SourcePush(mx, i, data) ==
  IF Len(data) = 0 THEN mx
  ELSE [mx EXCEPT !.streams[i] = NodePush(mx.streams[i], data)]

\* sourceReadableLength
SourceReadableLength(mx, i) == mx.streams[i].readableLength

RECURSIVE Digits(_)
\* The decimal digits of a natural number, as character codes.
Digits(n) == IF n < 10 THEN <<48 + n>> ELSE Digits(n \div 10) \o <<48 + (n % 10)>>

\* createStream, with its start(): an initiator sends NEW_STREAM with the stream
\* name (the id when no name is given).  The result is the muxer with the new
\* stream appended to its streams.
CreateStream(mx, id, name, type) ==
  LET mx1 == [mx EXCEPT !.streams = Append(mx.streams, NewStreamState(id, name, type))]
  IN IF type = "initiator" THEN Send(mx1, Msg(id, NEW_STREAM, TRUE, name)) ELSE mx1

\* ------------------------------------------------------------------- muxer

\* The empty Map.
EmptyMap == [k \in {} |-> 0]

\* The state the MplexStreamMuxer constructor sets up.  streams holds every
\* stream the muxer has created, in creation order; the two registries map an id
\* to the index of its stream.  limiter is the points the rate limiter has
\* counted for the key "new-stream" in the current one-second window.  pc, batch
\* and consumeOk are the _write call in progress.  sink, events and handled list
\* what the current step pushed to the transport, which callbacks it invoked and
\* which messages it handed to _handleIncoming.
NewMuxer(init, piped) ==
  [init |-> init, streamId |-> 0, initiators |-> EmptyMap, receivers |-> EmptyMap,
   closed |-> FALSE, destroyed |-> FALSE, destroyErr |-> "none",
   decoder |-> NewDecoder, limiter |-> 0, streams |-> <<>>,
   sink |-> <<>>, sent |-> <<>>, events |-> <<>>, wire |-> <<>>, piped |-> piped,
   pc |-> "idle", batch |-> <<>>, consumeOk |-> TRUE, handled |-> <<>>]

\* Duplex.destroy(err) on the muxer itself: once only.
MuxDestroy(mx, err) ==
  IF mx.destroyed THEN mx ELSE [mx EXCEPT !.destroyed = TRUE, !.destroyErr = err]

\* The streams getter: the initiators, then the receivers.
Streams(mx) ==
  {mx.initiators[k] : k \in DOMAIN mx.initiators} \cup {mx.receivers[k] : k \in DOMAIN mx.receivers}

\* A _newStream without the outbound cap.
NewStreamUncapped(mx, id, name, type) ==
  IF id \in DOMAIN Registry(mx, type)
  THEN [mx |-> mx, err |-> "already exists"]
  ELSE LET mx1 == CreateStream(mx, id, name, type)
       IN [mx |-> RegistrySet(mx1, type, id, Len(mx1.streams)), err |-> "none"]

\* A _newStream that replaces the stream registered under the id.
NewStreamReplacing(mx, id, name, type) ==
  IF type = "initiator" /\ Cardinality(DOMAIN mx.initiators) = mx.init.maxOutboundStreams
  THEN [mx |-> mx, err |-> "ERR_TOO_MANY_OUTBOUND_STREAMS"]
  ELSE LET mx1 == CreateStream(mx, id, name, type)
       IN [mx |-> RegistrySet(mx1, type, id, Len(mx1.streams)), err |-> "none"]

\* _newStream: the outbound cap, the duplicate check, createStream, registry.set.
NewStreamInternal(mx, id, name, type) ==
  IF type = "initiator" /\ Cardinality(DOMAIN mx.initiators) = mx.init.maxOutboundStreams
  THEN [mx |-> mx, err |-> "ERR_TOO_MANY_OUTBOUND_STREAMS"]
  ELSE IF id \in DOMAIN Registry(mx, type)
  THEN [mx |-> mx, err |-> "already exists"]
  ELSE LET mx1 == CreateStream(mx, id, name, type)
       IN [mx |-> RegistrySet(mx1, type, id, Len(mx1.streams)), err |-> "none"]

\* A newStream that does not look at the close latch.
NewStreamUnlatched(mx, name) ==
  NewStreamInternal([mx EXCEPT !.streamId = mx.streamId + 1], mx.streamId,
                    IF name = <<>> THEN Digits(mx.streamId) ELSE name, "initiator")

\* newStream(name): the close check, the next id, the default name, _newStream.
\* name = <<>> stands for no name given.
NewStream(mx, name) ==
  IF mx.closed THEN [mx |-> mx, err |-> "Muxer already closed"]
  ELSE LET id == mx.streamId
           mx1 == [mx EXCEPT !.streamId = mx.streamId + 1]
       IN NewStreamInternal(mx1, id, IF name = <<>> THEN Digits(id) ELSE name, "initiator")

\* A close that destroys the streams and leaves the latch open.
MuxCloseUnlatched(mx, err) ==
  [mx EXCEPT !.streams = [i \in DOMAIN mx.streams |->
                            IF i \in Streams(mx) THEN NodeDestroy(mx.streams[i], err)
                            ELSE mx.streams[i]]]

\* close(err): destroy every registered stream, then abort the close controller.
MuxClose(mx, err) ==
  IF mx.closed THEN mx
  ELSE [mx EXCEPT !.streams = [i \in DOMAIN mx.streams |->
                                 IF i \in Streams(mx) THEN NodeDestroy(mx.streams[i], err)
                                 ELSE mx.streams[i]],
                  !.closed = TRUE]

\* A limiter that rejects the point that reaches the threshold.
LimiterConsumeEarly(mx) ==
  [mx EXCEPT !.limiter = mx.limiter + 1, !.consumeOk = (mx.limiter + 1 < mx.init.disconnectThreshold)]

\* rateLimiter.consume('new-stream', 1): count the point; the promise resolves
\* while the count is within disconnectThreshold and rejects above it.
LimiterConsume(mx) ==
  [mx EXCEPT !.limiter = mx.limiter + 1, !.consumeOk = (mx.limiter + 1 <= mx.init.disconnectThreshold)]

\* A routing with the two maps swapped.
RouteListSwapped(mx, type) == IF type % 2 = 1 THEN mx.receivers ELSE mx.initiators

\* The map a frame that is no NEW_STREAM is looked up in: (type & 1) === 1 selects
\* the initiators, the receivers otherwise.
RouteList(mx, type) == IF type % 2 = 1 THEN mx.initiators ELSE mx.receivers

\* An overflow reset with the suffix of the frame that came in.
OverflowResetEchoed(type) ==
  IF type = MESSAGE_INITIATOR THEN RESET_INITIATOR ELSE RESET_RECEIVER

\* The type of the reset the muxer sends for a stream whose buffer is full, by the
\* type of the MESSAGE frame that came in.
OverflowReset(type) ==
  IF type = MESSAGE_INITIATOR THEN RESET_RECEIVER ELSE RESET_INITIATOR

\* A cap test that lets one stream more in.
AtInboundCapAbove(mx) == Cardinality(DOMAIN mx.receivers) > mx.init.maxInboundStreams

\* _handleIncoming on NEW_STREAM: receivers.size === maxInboundStreams.
AtInboundCap(mx) == Cardinality(DOMAIN mx.receivers) = mx.init.maxInboundStreams

\* _handleIncoming up to its await or its return.  out is "await" when the call
\* is suspended on the rate limiter, "return" when it returned, or the error thrown.
HandleIncoming(mx, msg) ==
  IF msg.type = NEW_STREAM
  THEN IF AtInboundCap(mx)
       THEN [mx |-> LimiterConsume(PushToSink(mx, Msg(msg.id, RESET_RECEIVER, FALSE, <<>>))),
             out |-> "await"]
       ELSE LET r == NewStreamInternal(mx, msg.id, msg.data, "receiver")
            IN IF r.err # "none" THEN [mx |-> r.mx, out |-> r.err]
               ELSE [mx |-> [r.mx EXCEPT !.events = Append(r.mx.events,
                                [ev |-> "onIncomingStream", stream |-> Len(r.mx.streams)])],
                     out |-> "return"]
  ELSE LET list == RouteList(mx, msg.type)
       IN IF msg.id \notin DOMAIN list THEN [mx |-> mx, out |-> "return"]
          ELSE LET i == list[msg.id]
               IN CASE msg.type \in {MESSAGE_INITIATOR, MESSAGE_RECEIVER} ->
                         IF SourceReadableLength(mx, i) > mx.init.maxStreamBufferSize
                         THEN LET mx1 == PushToSink(mx, Msg(msg.id, OverflowReset(msg.type),
                                                            FALSE, <<>>))
                              IN [mx |-> [mx1 EXCEPT !.streams[i] =
                                            NodeDestroy(mx1.streams[i],
                                                        "ERR_STREAM_INPUT_BUFFER_FULL")],
                                  out |-> "return"]
                         ELSE [mx |-> SourcePush(mx, i, msg.data), out |-> "return"]
                    [] msg.type \in {CLOSE_INITIATOR, CLOSE_RECEIVER} ->
                         [mx |-> CloseRead(mx, i), out |-> "return"]
                    [] msg.type \in {RESET_INITIATOR, RESET_RECEIVER} ->
                         [mx |-> StreamReset(mx, i), out |-> "return"]

\* The rest of _handleIncoming after the await: a rejected consume destroys the muxer.
HandleIncomingResume(mx) ==
  IF mx.consumeOk THEN mx ELSE MuxDestroy(mx, "Too many open streams")

\* ------------------------------------------------------- bounds of the runs

\* The ids newStream may hand out before the model stops calling it.
MaxStreamId == 2
\* The streams one muxer creates before the model stops opening new ones.
MaxStreams == 2
\* The inbound cap of the burst specification.
BurstInboundStreams == 2

\* The init options of the burst specification.
BurstOptions == [MplexInit EXCEPT !.maxInboundStreams = BurstInboundStreams]

\* The muxers of the single-muxer specifications.
Muxers == {"A"}

\* The bytes an application writes to a stream: 1, 2, ..., n.
WriteData(n) == [k \in 1..n |-> k]

\* The ids the peer uses: enough distinct ones to pass the inbound cap and the
\* rate limiter.
InIds(init) == 0..(init.maxInboundStreams + init.disconnectThreshold)

\* The payload of inbound MESSAGE frames, one byte more than a stream may buffer,
\* and the name in inbound NEW_STREAM frames.
InData(init) == WriteData(init.maxStreamBufferSize + 1)
InName == <<104>>

\* The NEW_STREAM frames the peer sends.
InOpens(init) == {Msg(id, NEW_STREAM, TRUE, InName) : id \in InIds(init)}

\* The frames the peer sends.
InFrames(init) ==
  InOpens(init)
    \cup {Msg(id, t, TRUE, InData(init)) :
            id \in InIds(init), t \in {MESSAGE_INITIATOR, MESSAGE_RECEIVER}}
    \cup {Msg(id, t, FALSE, <<>>) : id \in InIds(init),
            t \in {CLOSE_INITIATOR, CLOSE_RECEIVER, RESET_INITIATOR, RESET_RECEIVER}}

\* What one write to the muxer carries: one frame, or two NEW_STREAM frames.
InBatches(init) ==
  {<<f>> : f \in InFrames(init)} \cup {<<f, g>> : f \in InOpens(init), g \in InOpens(init)}

RECURSIVE EncodeAll(_)
\* The wire bytes of a list of messages.
EncodeAll(msgs) ==
  IF msgs = <<>> THEN <<>> ELSE Flatten(EncoderWrite(Head(msgs))) \o EncodeAll(Tail(msgs))

\* The chunks the transport writes to a muxer, by the muxer's init options, and
\* Decoder.write of each on a decoder that holds nothing: both are functions of
\* their arguments, tabulated so that they are computed once and not once per state.
InChunks == [init \in {MplexInit, BurstOptions} |-> {EncodeAll(b) : b \in InBatches(init)}]
DecoderWriteFresh ==
  [c \in InChunks[MplexInit] \cup InChunks[BurstOptions] |-> DecoderWrite(NewDecoder, c)]

\* The lengths of the writes: up to two full messages and a rest.
WriteLens == 0..(2 * MaxMsgSize + 1)

\* The size the Duplex hands the read handler (its high-water mark), here above
\* the buffer cap.
ReadSizes == {MaxStreamBufferSize + 1}

\* The errors an application passes to close and abort ("none": no argument).
AppErrs == {"none", "E1"}

\* The stream names an application passes to newStream (<<>>: none).
AppNames == {<<>>, <<104, 105>>}

\* The peer sends while no stream holds more unread bytes than this.
RbufCap == 0

\* ----------------------------------------------------------------- actions

\* A stream whose halves have both ended: it is destroyed and out of the
\* registry, every handler of it returns at once (onSourceEnd and onSinkEnd at
\* their latch, closeRead and closeWrite at theirs) and the Duplex calls neither
\* its write, final nor read handler, so nothing reads its other fields again.
\* Such streams are stored as this one value, with the error they ended with.
EndedStream ==
  [NewStreamState(0, <<>>, "initiator")
     EXCEPT !.sourceEnded = TRUE, !.sinkEnded = TRUE, !.eof = TRUE, !.wEnded = TRUE,
            !.destroyed = TRUE]

\* The start of a step on a muxer: nothing pushed, called or handled yet.
Begin(mx) == [mx EXCEPT !.sink = <<>>, !.sent = <<>>, !.events = <<>>, !.handled = <<>>]

\* The muxer as the state keeps it after a step: sink, sent, events and handled
\* are read off the step's result and not kept.
Store(mx) ==
  [mx EXCEPT !.sink = <<>>, !.sent = <<>>, !.events = <<>>, !.handled = <<>>,
             !.streams = [i \in DOMAIN mx.streams |->
                            IF /\ mx.streams[i].sourceEnded /\ mx.streams[i].sinkEnded
                               /\ mx.streams[i].destroyed /\ i \notin Streams(mx)
                            THEN [EndedStream EXCEPT !.endErr = mx.streams[i].endErr]
                            ELSE mx.streams[i]]]

\* The ids of the NEW_STREAM messages a step handled.
Opened(mx) ==
  {mx.handled[k].id : k \in {j \in DOMAIN mx.handled : mx.handled[j].type = NEW_STREAM}}

\* What a burst run records of a step from pre to post: the ids of the NEW_STREAM
\* messages handled so far, and whether the run has left the burst: an id came
\* twice, a receiver left the registry or the limiter's window ended.
Observe(o, pre, post) ==
  IF ~o.on \/ o.tainted THEN o
  ELSE IF \/ Opened(post) \cap o.nsIds # {}
          \/ ~(DOMAIN pre.receivers \subseteq DOMAIN post.receivers)
          \/ post.limiter < pre.limiter
       THEN [o EXCEPT !.tainted = TRUE, !.nsIds = {}]
       ELSE [o EXCEPT !.nsIds = o.nsIds \cup Opened(post)]

Step(m, post) ==
  /\ mux' = [mux EXCEPT ![m] = Store(post)]
  /\ obs' = Observe(obs, mux[m], post)
  /\ UNCHANGED codec

\* A step that is no newStream call.
StepQ(m, post) == Step(m, post) /\ UNCHANGED lastErr

\* The application calls muxer.newStream(name).
ANewStreamResult(m, r) == Step(m, r.mx) /\ lastErr' = r.err

ANewStream(m) ==
  \E name \in AppNames :
    /\ mux[m].streamId < MaxStreamId
    /\ Len(mux[m].streams) < MaxStreams
    /\ ANewStreamResult(m, NewStream(Begin(mux[m]), name))

\* The application calls muxer.close(err).
AClose(m) ==
  \E err \in AppErrs : StepQ(m, MuxClose(Begin(mux[m]), err))

\* The chain of _write has settled: callback(null) or callback(err); the Writable
\* destroys the muxer on an error.  The callback runs in the microtask that
\* follows the last link, so it is taken in the step of that link.
WriteCallback(mx, err) ==
  [(IF err = "none" THEN mx ELSE MuxDestroy(mx, err)) EXCEPT !.pc = "idle", !.batch = <<>>]

\* What follows a link of the chain that returned: the next link, or the callback.
NextLink(mx) == IF mx.batch = <<>> THEN WriteCallback(mx, "none") ELSE [mx EXCEPT !.pc = "dispatch"]

\* A chain that calls back as soon as one _handleIncoming has returned.
DispatchedEarly(r, rest) ==
  IF r.out = "await" THEN [r.mx EXCEPT !.pc = "await", !.batch = rest]
  ELSE WriteCallback(r.mx, IF r.out = "return" THEN "none" ELSE r.out)

\* The outcome r of _handleIncoming for the head of the chain.  A throw rejects
\* the chain: the messages left are not dispatched and the callback gets the error.
Dispatched(r, rest) ==
  IF r.out = "await" THEN [r.mx EXCEPT !.pc = "await", !.batch = rest]
  ELSE IF r.out = "return" THEN NextLink([r.mx EXCEPT !.batch = rest])
  ELSE WriteCallback(r.mx, r.out)

\* A chain that takes the messages from the last one (reduceRight).
DispatchLast(mx) ==
  Dispatched(HandleIncoming([mx EXCEPT !.handled = Append(mx.handled, mx.batch[Len(mx.batch)])],
                            mx.batch[Len(mx.batch)]),
             SubSeq(mx.batch, 1, Len(mx.batch) - 1))

\* One link of the reduce chain of _write: _handleIncoming(msg), up to its await,
\* its return or its throw.
Dispatch(mx) ==
  Dispatched(HandleIncoming([mx EXCEPT !.handled = Append(mx.handled, Head(mx.batch))],
                            Head(mx.batch)),
             Tail(mx.batch))

\* The reduce chain of _write over the messages r the decoder returned.
StartChain(mx, r) == NextLink([mx EXCEPT !.decoder = r.decoder, !.batch = r.msgs])

\* _write(chunk): decode the chunk and start the reduce chain over the messages.
MuxWrite(mx, chunk) ==
  StartChain(mx, IF mx.decoder = NewDecoder /\ chunk \in DOMAIN DecoderWriteFresh
                 THEN DecoderWriteFresh[chunk] ELSE DecoderWrite(mx.decoder, chunk))

\* _write touches only the decoder and the chain, which no other operation reads,
\* so the first link of the chain is taken in the step of the write: every
\* interleaving of other operations between the two reaches the state it reaches
\* when they come first.
FirstLink(mx) == IF mx.pc = "dispatch" THEN Dispatch(mx) ELSE mx

\* The NEW_STREAM messages of the chain.
Opening(mx) == {k \in DOMAIN mx.batch : mx.batch[k].type = NEW_STREAM}

\* The receivers the cap leaves room for.
Room(mx) == mx.init.maxInboundStreams - Cardinality(DOMAIN mx.receivers)

\* The Writable hands _write a chunk when no write is in progress and the muxer
\* is not destroyed; the peer sends while the streams hold no more than RbufCap.
CanWrite(mx) ==
  /\ mx.pc = "idle"
  /\ ~mx.destroyed
  /\ \A i \in DOMAIN mx.streams : Len(mx.streams[i].rbuf) <= RbufCap

\* A chunk is written while its NEW_STREAM frames, were all of them accepted,
\* keep the muxer within MaxStreams.
AWriteChunk(m, mx) ==
  /\ Len(mx.streams) + Cardinality(Opening(mx)) <= MaxStreams
  /\ StepQ(m, FirstLink(mx))

\* The transport writes a chunk.
AWrite(m) ==
  \E c \in InChunks[mux[m].init] :
    /\ CanWrite(mux[m])
    /\ AWriteChunk(m, MuxWrite(Begin(mux[m]), c))

\* In a burst a chunk is written while the frames the cap leaves room for keep
\* the muxer within MaxStreams.
ABurstChunk(m, mx) ==
  /\ \/ Len(mx.streams) + Cardinality(Opening(mx)) <= MaxStreams
     \/ Len(mx.streams) + Room(mx) <= MaxStreams
  /\ StepQ(m, FirstLink(mx))

\* The transport writes a chunk of the peer's burst.
ABurstWrite(m) ==
  \E c \in InChunks[mux[m].init] :
    /\ CanWrite(mux[m])
    /\ ABurstChunk(m, MuxWrite(Begin(mux[m]), c))

\* A later link of the chain runs.
ADispatch(m) ==
  /\ mux[m].pc = "dispatch"
  /\ StepQ(m, Dispatch(Begin(mux[m])))

\* The rate limiter's promise settles and _handleIncoming runs on.
Resume(mx) == NextLink(HandleIncomingResume(mx))

AResume(m) ==
  /\ mux[m].pc = "await"
  /\ StepQ(m, Resume(Begin(mux[m])))

\* The rate limiter's one-second window of the key ends.
ALimiterExpire(m) ==
  /\ mux[m].limiter > 0
  /\ StepQ(m, [Begin(mux[m]) EXCEPT !.limiter = 0])

\* The Writable calls the write handler unless the stream is destroyed or end()
\* was called.
Writable(s) == ~s.destroyed /\ ~s.wEnded

\* The application writes to a stream.
AStreamWrite(m) ==
  \E i \in DOMAIN mux[m].streams, n \in WriteLens :
    /\ Writable(mux[m].streams[i])
    /\ StepQ(m, StreamWrite(Begin(mux[m]), i, WriteData(n)))

\* Writable.end(): final runs once, unless the stream is destroyed.
StreamEnd(mx, i) == OnFinal([mx EXCEPT !.streams[i].wEnded = TRUE], i)

\* The application calls stream.end().
AStreamEnd(m) ==
  \E i \in DOMAIN mux[m].streams :
    /\ Writable(mux[m].streams[i])
    /\ StepQ(m, StreamEnd(Begin(mux[m]), i))

AStreamCloseRead(m) ==
  \E i \in DOMAIN mux[m].streams : StepQ(m, CloseRead(Begin(mux[m]), i))

AStreamCloseWrite(m) ==
  \E i \in DOMAIN mux[m].streams : StepQ(m, CloseWrite(Begin(mux[m]), i))

AStreamClose(m) ==
  \E i \in DOMAIN mux[m].streams : StepQ(m, StreamClose(Begin(mux[m]), i))

AStreamAbort(m) ==
  \E i \in DOMAIN mux[m].streams, err \in AppErrs :
    StepQ(m, StreamAbort(Begin(mux[m]), i, err))

AStreamReset(m) ==
  \E i \in DOMAIN mux[m].streams : StepQ(m, StreamReset(Begin(mux[m]), i))

\* The Readable calls the read handler (not once the stream has ended or is destroyed).
AStreamRead(m) ==
  \E i \in DOMAIN mux[m].streams, size \in ReadSizes :
    /\ ~mux[m].streams[i].destroyed
    /\ ~mux[m].streams[i].eof
    /\ StepQ(m, StreamRead(Begin(mux[m]), i, size))

\* The application takes the buffered bytes off the readable side.
AStreamConsume(m) ==
  \E i \in DOMAIN mux[m].streams :
    /\ mux[m].streams[i].rbuf # <<>>
    /\ StepQ(m, [Begin(mux[m]) EXCEPT !.streams[i].rbuf = <<>>])

\* ----------------------------------------------------------- specification

NoObs == [on |-> FALSE, nsIds |-> {}, tainted |-> FALSE]

NoCodec == [list |-> <<>>, sent |-> 0, poolOffset |-> 0, wire |-> <<>>,
            decoder |-> NewDecoder, out |-> <<>>, err |-> "none", fed |-> 0]

\* One muxer with the scaled-down options, driven by an application and a peer.
Init ==
  /\ mux = [m \in Muxers |-> NewMuxer(MplexInit, FALSE)]
  /\ lastErr = "none"
  /\ obs = NoObs
  /\ codec = NoCodec

Next ==
  \E m \in Muxers :
    \/ ANewStream(m)
    \/ AClose(m)
    \/ AWrite(m)
    \/ ADispatch(m)
    \/ AResume(m)
    \/ ALimiterExpire(m)
    \/ AStreamWrite(m)
    \/ AStreamEnd(m)
    \/ AStreamCloseRead(m)
    \/ AStreamCloseWrite(m)
    \/ AStreamClose(m)
    \/ AStreamAbort(m)
    \/ AStreamReset(m)
    \/ AStreamRead(m)
    \/ AStreamConsume(m)

Spec == Init /\ [][Next]_vars

\* A peer's burst of NEW_STREAM frames: one muxer with an inbound cap of
\* BurstInboundStreams, the peer, and an application that takes what the streams
\* it is given have buffered and closes their halves.
BurstInit ==
  /\ mux = [m \in Muxers |-> NewMuxer(BurstOptions, FALSE)]
  /\ lastErr = "none"
  /\ obs = [NoObs EXCEPT !.on = TRUE]
  /\ codec = NoCodec

BurstNext ==
  \E m \in Muxers :
    \/ ABurstWrite(m)
    \/ ADispatch(m)
    \/ AResume(m)
    \/ ALimiterExpire(m)
    \/ AStreamCloseRead(m)
    \/ AStreamCloseWrite(m)
    \/ AStreamConsume(m)

SpecBurst == BurstInit /\ [][BurstNext]_vars

\* ------------------------------------------------- the codec specification

\* The ids of the messages the codec is given: small ones, the largest whose
\* header word id << 3 stays below 2^31, and the first one beyond it.
CodecIds == {0, 17, 268435455, 268435456}

\* The payloads of the data-bearing messages.
CodecData == {<<>>, <<49, 55>>}

\* The valid messages: a type the decoder knows, data on the data-bearing types.
ValidMsgs ==
  {Msg(id, t, TRUE, d) : id \in CodecIds, t \in {NEW_STREAM, MESSAGE_INITIATOR}, d \in CodecData}
    \cup {Msg(id, CLOSE_RECEIVER, FALSE, <<>>) : id \in CodecIds}

\* Messages whose type is 7: the encoder writes any type it is given.
UnknownMsgs == {Msg(id, 7, FALSE, <<>>) : id \in {0, 17}}

CodecMsgs == ValidMsgs \cup UnknownMsgs

\* The lists of messages handed to the encoder.
CodecLists ==
  UNION {[1..n -> CodecMsgs] : n \in 1..MaxMsgs}

\* encoder.write(msg) for the next message of the list: its chunks go on the wire.
CEncode ==
  /\ codec.sent < Len(codec.list)
  /\ codec' = [codec EXCEPT
                 !.sent = codec.sent + 1,
                 !.poolOffset = EncoderPoolOffset(codec.poolOffset, codec.list[codec.sent + 1]),
                 !.wire = codec.wire \o Flatten(EncoderWrite(codec.list[codec.sent + 1]))]
  /\ UNCHANGED <<mux, lastErr, obs>>

\* The codec after decoder.write of the first k bytes of the wire gave r; fed
\* counts the write calls (2: two or more).
CFed(k, r) ==
  [codec EXCEPT !.wire = Consume(codec.wire, k), !.decoder = r.decoder,
                !.out = codec.out \o r.msgs, !.err = r.err,
                !.fed = IF codec.fed = 0 THEN 1 ELSE 2]

\* decoder.write(chunk), the chunk being any non-empty prefix of the bytes on the wire.
CFeed ==
  \E k \in 1..Len(codec.wire) :
    /\ codec' = CFed(k, DecoderWrite(codec.decoder, Sublist(codec.wire, 0, k)))
    /\ UNCHANGED <<mux, lastErr, obs>>

CodecInit ==
  /\ mux = [m \in Muxers |-> NewMuxer(MplexInit, FALSE)]
  /\ lastErr = "none"
  /\ obs = NoObs
  /\ codec \in {[NoCodec EXCEPT !.list = l] : l \in CodecLists}

CodecNext == CEncode \/ CFeed

SpecCodec == CodecInit /\ [][CodecNext]_vars

\* --------------------------------------------------- the pair specification

\* Two muxers, each piped into the other (a.pipe(b).pipe(a)).
PairMuxers == {"A", "B"}
Peer(m) == IF m = "A" THEN "B" ELSE "A"

\* The muxer whose application opens streams, and how many it opens.
PairOpeners == {"A"}
PairStreams == 1

\* The bytes an application writes to one stream in all, a write being of one
\* byte or of one byte more than a message holds.
PairMaxBytes == 4
PairWriteLens == {1, MaxMsgSize + 1}

\* What a run of the pair records: per muxer and stream, the bytes written to
\* the stream before its write side was closed (w), and how many of them were
\* written when its read side had ended (late).  The k-th byte written to a
\* stream is k, so that the bytes tell their order.
PairObs(w, late) == [on |-> FALSE, nsIds |-> {}, tainted |-> FALSE, w |-> w, late |-> late]

\* The record with the streams a step created added, nothing written to them yet.
Grown(w, m, post) ==
  [w EXCEPT ![m] = w[m] \o [k \in 1..(Len(post.streams) - Len(w[m])) |-> <<>>]]
GrownLate(late, m, post) ==
  [late EXCEPT ![m] = late[m] \o [k \in 1..(Len(post.streams) - Len(late[m])) |-> 0]]

\* A step of muxer m of the pair that writes data to its stream i (i = 0: no write).
PairStep(m, post, i, data) ==
  /\ mux' = [mux EXCEPT ![m] = Begin(post)]
  /\ obs' = IF i = 0 THEN PairObs(Grown(obs.w, m, post), GrownLate(obs.late, m, post))
             ELSE PairObs([obs.w EXCEPT ![m][i] = obs.w[m][i] \o data],
                          [obs.late EXCEPT ![m][i] =
                             IF mux[m].streams[i].sourceEnded THEN @ + Len(data) ELSE @])
  /\ UNCHANGED <<lastErr, codec>>

\* The application calls muxer.newStream().
PNewStream(m) ==
  /\ m \in PairOpeners
  /\ Len(mux[m].streams) < PairStreams
  /\ PairStep(m, NewStream(Begin(mux[m]), <<>>).mx, 0, <<>>)

\* The bytes of the next write of n bytes to a stream that was given w so far.
NextBytes(w, n) == [k \in 1..n |-> Len(w) + k]

\* The application writes to a stream whose write side it has not closed.
PStreamWrite(m) ==
  \E i \in DOMAIN mux[m].streams, n \in PairWriteLens :
    /\ Writable(mux[m].streams[i])
    /\ ~mux[m].streams[i].sinkEnded
    /\ Len(obs.w[m][i]) + n <= PairMaxBytes
    /\ PairStep(m, StreamWrite(Begin(mux[m]), i, NextBytes(obs.w[m][i], n)),
                i, NextBytes(obs.w[m][i], n))

\* The application calls stream.closeWrite().
PStreamCloseWrite(m) ==
  \E i \in DOMAIN mux[m].streams : PairStep(m, CloseWrite(Begin(mux[m]), i), 0, <<>>)

\* The application calls stream.end().
PStreamEnd(m) ==
  \E i \in DOMAIN mux[m].streams :
    /\ Writable(mux[m].streams[i])
    /\ PairStep(m, StreamEnd(Begin(mux[m]), i), 0, <<>>)

\* The pipe writes what muxer p pushed to its peer m: the first chunk, or all the
\* chunks in one write (a transport that coalesces).
PDelivered(m, n, post) ==
  /\ mux' = [mux EXCEPT ![Peer(m)].wire = SubSeq(@, n + 1, Len(@)), ![m] = Begin(post)]
  /\ obs' = PairObs(Grown(obs.w, m, post), GrownLate(obs.late, m, post))
  /\ UNCHANGED <<lastErr, codec>>

PDeliver(m) ==
  \E n \in {1, Len(mux[Peer(m)].wire)} :
    /\ n >= 1
    /\ n <= Len(mux[Peer(m)].wire)
    /\ mux[m].pc = "idle"
    /\ ~mux[m].destroyed
    /\ PDelivered(m, n, FirstLink(MuxWrite(Begin(mux[m]),
                                           Flatten(SubSeq(mux[Peer(m)].wire, 1, n)))))

\* A later link of the chain of a write runs.
PDispatch(m) ==
  /\ mux[m].pc = "dispatch"
  /\ PairStep(m, Dispatch(Begin(mux[m])), 0, <<>>)

PairInit ==
  /\ mux = [m \in PairMuxers |-> NewMuxer(MplexInit, TRUE)]
  /\ lastErr = "none"
  /\ obs = PairObs([m \in PairMuxers |-> <<>>], [m \in PairMuxers |-> <<>>])
  /\ codec = NoCodec

PairNext ==
  \E m \in PairMuxers :
    \/ PNewStream(m)
    \/ PStreamWrite(m)
    \/ PStreamCloseWrite(m)
    \/ PStreamEnd(m)
    \/ PDeliver(m)
    \/ PDispatch(m)

SpecPair == PairInit /\ [][PairNext]_vars

\* ------------------------------------------------------------------ claims

\* The payloads of a list of messages, concatenated.
Payloads(frames) == Flatten([k \in DOMAIN frames |-> frames[k].data])

\* ceil(n / m)
CeilDiv(n, m) == (n + m - 1) \div m

\* What a write of data to stream i of muxer mx hands to the muxer.
WriteObeysLaw(mx, i, data) ==
  LET post == StreamWrite(Begin(mx), i, data)
      frames == post.sent
      M == mx.init.maxMsgSize
  IN /\ Len(frames) = CeilDiv(Len(data), M)
     /\ \A k \in DOMAIN frames :
          /\ frames[k].type = TypesMESSAGE(mx.streams[i].type)
          /\ frames[k].id = mx.streams[i].id
          /\ frames[k].hasData
          /\ Len(frames[k].data) <= M
     /\ Payloads(frames) = data
     /\ post.streams[i].uint8ArrayList = <<>>

\* C1: in every reachable state, a write of N bytes to any stream whose write
\* handler the Duplex still calls hands exactly ceil(N/M) MESSAGE frames of the
\* stream's family and id to the muxer, each of at most M bytes, their payloads
\* concatenated are the bytes written, and the pending list is empty at the callback.
C1_FragmentationLaw ==
  \A m \in Muxers : \A i \in DOMAIN mux[m].streams : \A n \in WriteLens :
    Writable(mux[m].streams[i]) => WriteObeysLaw(mux[m], i, WriteData(n))

\* A reachable state where a write of 2M+1 bytes goes out as three MESSAGE frames.
C1_Witness ==
  \E m \in Muxers : \E i \in DOMAIN mux[m].streams :
    /\ Writable(mux[m].streams[i])
    /\ Len(StreamWrite(Begin(mux[m]), i, WriteData(2 * MaxMsgSize + 1)).sent) = 3
    /\ Len(StreamWrite(Begin(mux[m]), i, WriteData(2 * MaxMsgSize + 1)).sink) = 3

\* Every message of the list handed to the encoder is valid.
ListValid == \A k \in DOMAIN codec.list : codec.list[k] \in ValidMsgs

\* The whole list has been encoded and every byte of it written to the decoder.
AllFed == codec.sent = Len(codec.list) /\ codec.wire = <<>>

\* C2: for every list of valid messages, once the bytes of the whole list have
\* been written to a fresh decoder, in whatever chunks, the messages the write
\* calls returned are the list, in order.
C2_FramingResilience == (ListValid /\ AllFed) => codec.out = codec.list

\* C3: for every valid message m, ids of 2^28 and more included, one
\* Decoder.write of the bytes Encoder.write(m) produced returns exactly [m].
C3_RoundTrip ==
  (ListValid /\ Len(codec.list) = 1 /\ AllFed /\ codec.fed = 1) => codec.out = codec.list

\* The decoder's buffer starts with a complete header whose type is 7.
HoldsUnknownType == DecodeHeader(codec.decoder.buffer).err = "InvalidType"

\* C4: a Decoder.write that leaves the decoder with a complete frame of type 7
\* to decode does not return normally: it fails with InvalidType.
C4_UnknownType == (codec.fed > 0 /\ HoldsUnknownType) => codec.err = "InvalidType"

\* A frame of the given type and id among the frames a step pushed to the transport.
Emits(mx, type, id) == \E k \in DOMAIN mx.sink : mx.sink[k].type = type /\ mx.sink[k].id = id

\* C5: when a MESSAGE_INITIATOR frame is dispatched to a registered receiver
\* stream the application has never read from and that holds more unread bytes
\* than maxStreamBufferSize, the muxer emits RESET_RECEIVER for the id and
\* destroys the stream with InputBufferFull.
C5_BufferFullTrigger ==
  \A m \in Muxers : \A id \in DOMAIN mux[m].receivers :
    LET i == mux[m].receivers[id]
        s == mux[m].streams[i]
        r == HandleIncoming(Begin(mux[m]), Msg(id, MESSAGE_INITIATOR, TRUE, InData(mux[m].init)))
    IN (/\ ~mux[m].destroyed
        /\ ~s.destroyed /\ ~s.eof
        /\ s.readableLength = 0
        /\ Len(s.rbuf) >= mux[m].init.maxStreamBufferSize + 1)
       => /\ Emits(r.mx, RESET_RECEIVER, id)
          /\ r.mx.streams[i].destroyed
          /\ r.mx.streams[i].destroyErr = "ERR_STREAM_INPUT_BUFFER_FULL"

\* What _handleIncoming leaves of the muxer when it registers nothing.
RegistersNothing(pre, post) ==
  /\ post.receivers = pre.receivers
  /\ post.initiators = pre.initiators
  /\ post.streams = pre.streams
  /\ post.events = <<>>

\* _handleIncoming registered a new receiver stream under the id, named by the
\* frame's data, and called onIncomingStream with it.
RegistersReceiver(pre, post, msg) ==
  LET i == Len(pre.streams) + 1
  IN /\ post.streams = Append(pre.streams, NewStreamState(msg.id, msg.data, "receiver"))
     /\ DOMAIN post.receivers = DOMAIN pre.receivers \cup {msg.id}
     /\ post.receivers[msg.id] = i
     /\ \A k \in DOMAIN pre.receivers : k # msg.id => post.receivers[k] = pre.receivers[k]
     /\ post.initiators = pre.initiators
     /\ post.events = <<[ev |-> "onIncomingStream", stream |-> i]>>

\* The claim of C6 as the spec has it: RESET_RECEIVER at the cap; below the cap,
\* a receiver registered under the id and onIncomingStream called.
C6_InboundCap ==
  \A m \in Muxers : \A msg \in InOpens(mux[m].init) :
    LET pre == Begin(mux[m])
        r == HandleIncoming(pre, msg)
    IN IF Cardinality(DOMAIN pre.receivers) = pre.init.maxInboundStreams
       THEN Emits(r.mx, RESET_RECEIVER, msg.id) /\ RegistersNothing(pre, r.mx)
       ELSE r.out = "return" /\ RegistersReceiver(pre, r.mx, msg)

\* C6: a NEW_STREAM dispatched at the inbound cap registers nothing, calls no
\* onIncomingStream and pushes one RESET_RECEIVER for the id (which the readable
\* side drops once the muxer is destroyed); below the cap it registers a receiver
\* under the id and calls onIncomingStream with it when no receiver is registered
\* under that id, and otherwise throws, registers nothing, calls and emits nothing.
C6_InboundCapAmended ==
  \A m \in Muxers : \A msg \in InOpens(mux[m].init) :
    LET pre == Begin(mux[m])
        r == HandleIncoming(pre, msg)
    IN IF Cardinality(DOMAIN pre.receivers) = pre.init.maxInboundStreams
       THEN /\ r.out = "await"
            /\ r.mx.sink = IF pre.destroyed THEN <<>>
                           ELSE <<Msg(msg.id, RESET_RECEIVER, FALSE, <<>>)>>
            /\ RegistersNothing(pre, r.mx)
       ELSE IF msg.id \in DOMAIN pre.receivers
       THEN /\ r.out = "already exists"
            /\ r.mx.sink = <<>>
            /\ RegistersNothing(pre, r.mx)
       ELSE /\ r.out = "return"
            /\ r.mx.sink = <<>>
            /\ RegistersReceiver(pre, r.mx, msg)

\* A NEW_STREAM for an id that was registered came below the cap: the write
\* failed and the muxer is destroyed with its error.
C6_Witness ==
  \E m \in Muxers :
    /\ mux[m].destroyed /\ mux[m].destroyErr = "already exists"
    /\ Cardinality(DOMAIN mux[m].receivers) < mux[m].init.maxInboundStreams

\* C7: in a burst (distinct ids, no window end, no receiver leaving the registry)
\* the limiter has counted exactly the NEW_STREAM frames that came at the cap, the
\* muxer is not destroyed before frame maxInboundStreams + disconnectThreshold + 1,
\* and that frame destroys it with "Too many open streams" (as soon as the
\* rejected consume is handled).
C7_RateLimitTrigger ==
  (obs.on /\ ~obs.tainted) =>
    \A m \in Muxers :
      LET n == Cardinality(obs.nsIds)
          I == mux[m].init.maxInboundStreams
          T == mux[m].init.disconnectThreshold
      IN /\ mux[m].limiter = IF n > I THEN n - I ELSE 0
         /\ mux[m].destroyed => (n >= I + T + 1 /\ mux[m].destroyErr = "Too many open streams")
         /\ n >= I + T + 1 => (mux[m].destroyed \/ (mux[m].pc = "await" /\ ~mux[m].consumeOk))
         /\ n < I + T + 1 => mux[m].consumeOk

\* The burst has destroyed the muxer on its last frame.
C7_Witness ==
  /\ obs.on /\ ~obs.tainted
  /\ \E m \in Muxers :
       /\ mux[m].destroyed /\ mux[m].destroyErr = "Too many open streams"
       /\ Cardinality(obs.nsIds) = mux[m].init.maxInboundStreams + mux[m].init.disconnectThreshold + 1

\* newStream at the outbound cap: TooManyOutboundStreams, nothing registered, no frame.
RejectsAtCap(mx, name) ==
  LET r == NewStream(Begin(mx), name)
  IN /\ r.err = "ERR_TOO_MANY_OUTBOUND_STREAMS"
     /\ r.mx.initiators = mx.initiators
     /\ r.mx.receivers = mx.receivers
     /\ r.mx.streams = mx.streams
     /\ r.mx.sink = <<>>

\* The claim of C8 as the spec has it: initiators.size never exceeds the cap, and
\* every newStream call at the cap fails with TooManyOutboundStreams.
C8_OutboundCap ==
  \A m \in Muxers :
    /\ Cardinality(DOMAIN mux[m].initiators) <= mux[m].init.maxOutboundStreams
    /\ Cardinality(DOMAIN mux[m].initiators) >= mux[m].init.maxOutboundStreams
         => \A name \in AppNames : RejectsAtCap(mux[m], name)

\* C8: initiators.size never exceeds the cap, and a newStream call at the cap on
\* a muxer that is not closed fails with TooManyOutboundStreams, registers no
\* stream and emits no frame (on a closed muxer it fails with MuxerClosed).
C8_OutboundCapAmended ==
  \A m \in Muxers :
    /\ Cardinality(DOMAIN mux[m].initiators) <= mux[m].init.maxOutboundStreams
    /\ (Cardinality(DOMAIN mux[m].initiators) >= mux[m].init.maxOutboundStreams /\ ~mux[m].closed)
         => \A name \in AppNames : RejectsAtCap(mux[m], name)

\* A newStream call was rejected at the cap.
C8_Witness ==
  /\ lastErr = "ERR_TOO_MANY_OUTBOUND_STREAMS"
  /\ \E m \in Muxers :
       Cardinality(DOMAIN mux[m].initiators) = mux[m].init.maxOutboundStreams

\* C9: on a muxer close() was called on, newStream fails with MuxerClosed and
\* changes nothing: no stream, no frame, the same next id.
C9_NewStreamAfterClose ==
  \A m \in Muxers : \A name \in AppNames :
    mux[m].closed =>
      LET r == NewStream(Begin(mux[m]), name)
      IN r.err = "Muxer already closed" /\ r.mx = Begin(mux[m])

\* A newStream call was made after close and failed.
C9_Witness ==
  /\ lastErr = "Muxer already closed"
  /\ \E m \in Muxers : mux[m].closed

\* C10: the first close(err) sets the latch and leaves every registered stream
\* destroyed, with err where the stream was not destroyed before (destroy acts
\* once), and touches nothing else; a close on a closed muxer changes nothing.
C10_Close ==
  \A m \in Muxers : \A err \in AppErrs :
    LET pre == Begin(mux[m])
        post == MuxClose(pre, err)
    IN IF pre.closed THEN post = pre
       ELSE /\ post.closed
            /\ \A i \in DOMAIN pre.streams :
                 IF i \in Streams(pre)
                 THEN /\ post.streams[i].destroyed
                      /\ ~pre.streams[i].destroyed => post.streams[i].destroyErr = err
                      /\ [post.streams[i] EXCEPT !.destroyed = pre.streams[i].destroyed,
                                                 !.destroyErr = pre.streams[i].destroyErr]
                           = pre.streams[i]
                 ELSE post.streams[i] = pre.streams[i]
            /\ [post EXCEPT !.closed = FALSE, !.streams = pre.streams] = pre

\* close(err) was called on a muxer with two registered streams: the latch is
\* set and both carry err.
C10_Witness ==
  \E m \in Muxers :
    /\ mux[m].closed
    /\ Cardinality(Streams(mux[m])) = 2
    /\ \A i \in Streams(mux[m]) :
         mux[m].streams[i].destroyed /\ mux[m].streams[i].destroyErr = "E1"

\* C11: in every reachable state the streams getter returns no stream that is
\* destroyed and no stream whose halves have both ended.
C11_StreamsOnlyOpen ==
  \A m \in Muxers : \A i \in Streams(mux[m]) :
    /\ ~mux[m].streams[i].destroyed
    /\ ~(mux[m].streams[i].sourceEnded /\ mux[m].streams[i].sinkEnded)

\* The streams the muxer created whose halves have not both ended.
NotFullyEnded(mx) ==
  {i \in DOMAIN mx.streams : ~(mx.streams[i].sourceEnded /\ mx.streams[i].sinkEnded)}

\* C12: in every reachable state initiators.size + receivers.size is the number
\* of streams the muxer created whose source and sink have not both ended, and
\* the registered streams are exactly those.
C12_RegistryConservation ==
  \A m \in Muxers :
    /\ Cardinality(DOMAIN mux[m].initiators) + Cardinality(DOMAIN mux[m].receivers)
         = Cardinality(NotFullyEnded(mux[m]))
    /\ Streams(mux[m]) = NotFullyEnded(mux[m])

\* A muxer that created two streams: one has fully ended and left the registry,
\* the other has ended one half and is the only one registered.
C12_Witness ==
  \E m \in Muxers :
    /\ Len(mux[m].streams) = 2
    /\ Cardinality(DOMAIN mux[m].initiators) + Cardinality(DOMAIN mux[m].receivers) = 1
    /\ \E i \in Streams(mux[m]) :
         mux[m].streams[i].sourceEnded /\ ~mux[m].streams[i].sinkEnded
    /\ \E j \in DOMAIN mux[m].streams :
         j \notin Streams(mux[m]) /\ mux[m].streams[j].sourceEnded /\ mux[m].streams[j].sinkEnded

\* The streams of the peer muxer that are the other end of stream i of muxer m.
PeerStreams(m, i) ==
  {j \in DOMAIN mux[Peer(m)].streams :
     /\ mux[Peer(m)].streams[j].id = mux[m].streams[i].id
     /\ mux[Peer(m)].streams[j].type # mux[m].streams[i].type}

\* Everything muxer m pushed has been written to its peer and dispatched there.
Drained(m) ==
  /\ mux[m].wire = <<>>
  /\ mux[Peer(m)].pc = "idle"
  /\ mux[Peer(m)].decoder = NewDecoder

RECURSIVE RunChain(_)
\* The chain of a write, run to its end.
RunChain(mx) == IF mx.pc = "dispatch" THEN RunChain(Dispatch(mx)) ELSE mx

\* The CLOSE frame the peer of a stream sends for it.
PeerClose(s) == Msg(s.id, IF s.type = "initiator" THEN CLOSE_RECEIVER ELSE CLOSE_INITIATOR,
                    FALSE, <<>>)

\* Dispatching the peer's CLOSE to registered stream j of muxer mx ends its
\* source with EOF, leaves its sink as it was and emits nothing.
CloseEndsSourceOnly(mx, j) ==
  LET r == HandleIncoming(Begin(mx), PeerClose(mx.streams[j]))
  IN /\ r.out = "return"
     /\ r.mx.streams[j].sourceEnded
     /\ r.mx.streams[j].eof
     /\ r.mx.streams[j].sinkEnded = mx.streams[j].sinkEnded
     /\ r.mx.streams[j].wEnded = mx.streams[j].wEnded
     /\ r.mx.sink = <<>>

\* Stream j of muxer p writes data; the pipe writes the chunks to the peer, whose
\* stream i has the bytes pushed to its readable side.
WriteReachesPeer(p, j, i, data) ==
  LET sent == StreamWrite(Begin(mux[p]), j, data)
      got == RunChain(MuxWrite(Begin(mux[Peer(p)]), Flatten(sent.wire)))
  IN got.streams[i].rbuf = mux[Peer(p)].streams[i].rbuf \o data

\* C13: once everything a muxer pushed has been dispatched at its peer, the peer
\* stream of every stream that closed its write side exists and has its source
\* ended with EOF; the CLOSE ends the source only (the sink stays as it was and
\* nothing is emitted); and what the peer stream, its sink open, writes after
\* that is still pushed to the readable side of the half-closed stream.
C13_HalfCloseSymmetry ==
  \A m \in PairMuxers : \A i \in DOMAIN mux[m].streams :
    LET s == mux[m].streams[i]
    IN /\ (s.sinkEnded /\ Drained(m)) =>
            /\ PeerStreams(m, i) # {}
            /\ \A j \in PeerStreams(m, i) :
                 mux[Peer(m)].streams[j].sourceEnded /\ mux[Peer(m)].streams[j].eof
       /\ i \in Streams(mux[m]) => CloseEndsSourceOnly(mux[m], i)
       /\ (s.sinkEnded /\ ~s.sourceEnded /\ Drained(m) /\ Drained(Peer(m))) =>
            \A j \in PeerStreams(m, i) : \A n \in PairWriteLens :
              (~mux[Peer(m)].streams[j].sinkEnded /\ Writable(mux[Peer(m)].streams[j]))
                => WriteReachesPeer(Peer(m), j, i, NextBytes(obs.w[Peer(m)][j], n))

\* Stream 1 of A has closed its write side and is open for reading; its peer on
\* B has seen EOF, has its sink open and has written bytes after that, all of
\* which are in the readable side of A's stream.
C13_Witness ==
  /\ Len(mux["A"].streams) = 1 /\ Len(mux["B"].streams) = 1
  /\ mux["A"].streams[1].sinkEnded /\ ~mux["A"].streams[1].sourceEnded
  /\ mux["B"].streams[1].eof /\ ~mux["B"].streams[1].sinkEnded
  /\ obs.late["B"][1] > MaxMsgSize
  /\ mux["A"].streams[1].rbuf = obs.w["B"][1]
  /\ Len(obs.w["B"][1]) = obs.late["B"][1]

\* The RESET frame the peer of a stream sends for it.
PeerReset(s) == Msg(s.id, IF s.type = "initiator" THEN RESET_RECEIVER ELSE RESET_INITIATOR,
                    FALSE, <<>>)

\* Dispatching the peer's RESET to registered stream i of muxer mx: both halves
\* ended, the end error is the reset error, the stream is out of its registry,
\* the other streams and registry entries are as they were, no frame is emitted.
ResetEndsBoth(mx, i) ==
  LET pre == Begin(mx)
      r == HandleIncoming(pre, PeerReset(mx.streams[i]))
      s == r.mx.streams[i]
  IN /\ r.out = "return"
     /\ s.sourceEnded /\ s.sinkEnded
     /\ s.endErr = "ERR_STREAM_RESET"
     /\ Streams(r.mx) = Streams(pre) \ {i}
     /\ \A j \in DOMAIN pre.streams : j # i => r.mx.streams[j] = pre.streams[j]
     /\ r.mx.sink = <<>>
     /\ r.mx.sent = <<>>
     /\ r.mx.wire = pre.wire
     /\ r.mx.events = <<[ev |-> "onStreamEnd", stream |-> i]>>

\* C14: in every reachable state, a RESET frame dispatched to a registered stream
\* ends both its halves with the reset error, removes it from its registry and
\* makes the muxer emit no frame.
C14_ResetAsymmetry ==
  \A m \in Muxers : \A i \in Streams(mux[m]) : ResetEndsBoth(mux[m], i)

\* An initiator and a receiver are registered under the same id, the receiver
\* with its write side closed, and a RESET_INITIATOR frame for the id ends the
\* receiver; and a stream has ended with the reset error before.
C14_Witness ==
  \E m \in Muxers :
    /\ \E id \in DOMAIN mux[m].receivers \cap DOMAIN mux[m].initiators :
         /\ mux[m].streams[mux[m].receivers[id]].sinkEnded
         /\ ResetEndsBoth(mux[m], mux[m].receivers[id])
    /\ \E j \in DOMAIN mux[m].streams :
         /\ j \notin Streams(mux[m])
         /\ mux[m].streams[j].endErr = "ERR_STREAM_RESET"

\* abort(err) on stream i of muxer mx: both halves ended, the end error handed
\* to onEnd is err, and no frame is sent or pushed.
AbortEndsWith(mx, i, err) ==
  LET post == StreamAbort(Begin(mx), i, err)
  IN /\ post.streams[i].sourceEnded /\ post.streams[i].sinkEnded
     /\ post.streams[i].endErr = err
     /\ post.events = <<[ev |-> "onStreamEnd", stream |-> i]>>
     /\ post.sent = <<>>
     /\ post.sink = <<>>

\* C15: in every reachable state, abort(err) on a stream that has not fully
\* ended leaves both halves ended with err as the end error given to onEnd, and
\* emits no frame.
C15_Abort ==
  \A m \in Muxers : \A i \in Streams(mux[m]) : AbortEndsWith(mux[m], i, "E1")

\* The muxer after the fatal error: destroyed with the error, every registered
\* stream destroyed with it, the close latch set and newStream failing with
\* MuxerClosed.
FatallyClosed(post) ==
  /\ post.destroyed /\ post.destroyErr = "Too many open streams"
  /\ \A i \in Streams(post) :
       post.streams[i].destroyed /\ post.streams[i].destroyErr = "Too many open streams"
  /\ post.closed
  /\ \A name \in AppNames : NewStream(post, name).err = "Muxer already closed"

\* C16: when the rate limiter has rejected a NEW_STREAM, the continuation of
\* _handleIncoming leaves the muxer destroyed with TooManyOpenStreams, every
\* registered stream destroyed with that error and the close latch set, so that
\* newStream fails with MuxerClosed.
C16_FatalError ==
  \A m \in Muxers :
    (mux[m].pc = "await" /\ ~mux[m].consumeOk /\ ~mux[m].destroyed)
      => FatallyClosed(Resume(Begin(mux[m])))

\* s is a prefix of t.
IsPrefix(s, t) == Len(s) <= Len(t) /\ s = SubSeq(t, 1, Len(s))

\* C17: the readable side of a peer stream holds, in write order, a prefix of
\* the bytes written to the stream before its write side was closed; it holds
\* all of them once the peer stream has its EOF, and once everything the muxer
\* pushed has been dispatched at the peer.
C17_PerStreamOrdering ==
  \A m \in PairMuxers : \A i \in DOMAIN mux[m].streams : \A j \in PeerStreams(m, i) :
    LET peer == mux[Peer(m)].streams[j]
    IN /\ IsPrefix(peer.rbuf, obs.w[m][i])
       /\ peer.eof => peer.rbuf = obs.w[m][i]
       /\ Drained(m) => peer.rbuf = obs.w[m][i]

\* The stream of A was given PairMaxBytes bytes in several writes, one of them
\* fragmented, and closed its write side; its peer on B holds them all and has
\* its EOF; the chunks came in more than one write of the pipe.
C17_Witness ==
  /\ Len(mux["A"].streams) = 1 /\ Len(mux["B"].streams) = 1
  /\ mux["A"].streams[1].sinkEnded
  /\ Len(obs.w["A"][1]) = PairMaxBytes
  /\ mux["B"].streams[1].eof
  /\ mux["B"].streams[1].rbuf = obs.w["A"][1]
  /\ mux["A"].wire = <<>>

\* Both halves of stream i of muxer mx have ended.
FullyEnded(mx, i) == mx.streams[i].sourceEnded /\ mx.streams[i].sinkEnded

\* The onStreamEnd calls a step made for stream i.
StreamEndCalls(post, i) ==
  {k \in DOMAIN post.events : post.events[k] = [ev |-> "onStreamEnd", stream |-> i]}

\* A step from pre to post calls onStreamEnd for a stream once if the second of
\* its halves ended in the step, and then the stream leaves its registry in the
\* step; it does not call it otherwise.
EndsOnce(pre, post) ==
  \A i \in DOMAIN pre.streams :
    IF ~FullyEnded(pre, i) /\ FullyEnded(post, i)
    THEN /\ Cardinality(StreamEndCalls(post, i)) = 1
         /\ i \in Streams(pre) /\ i \notin Streams(post)
    ELSE /\ StreamEndCalls(post, i) = {}
         /\ (i \in Streams(post)) = (i \in Streams(pre))

\* The operations on stream i of muxer pre, and those on the muxer, each with
\* its result.
StreamOps(pre, i) ==
  {CloseRead(pre, i), CloseWrite(pre, i), StreamClose(pre, i), StreamReset(pre, i)}
    \cup {StreamAbort(pre, i, err) : err \in AppErrs}
    \cup (IF Writable(pre.streams[i]) THEN {StreamEnd(pre, i)} ELSE {})
MuxerOps(pre) ==
  {MuxClose(pre, err) : err \in AppErrs}
    \cup {HandleIncoming(pre, f).mx : f \in InFrames(pre.init)}

\* C18: in every reachable state, whichever of closeRead, closeWrite, close,
\* end, abort, reset, muxer.close and an inbound frame comes next, onStreamEnd is
\* called for a stream exactly when the second of its halves ends in that step,
\* once, and the stream leaves its registry in that step; as the halves never
\* reopen, it is called at most once per stream and never with a half open.
C18_OnStreamEndOnce ==
  \A m \in Muxers :
    /\ \A i \in DOMAIN mux[m].streams :
         \A post \in StreamOps(Begin(mux[m]), i) : EndsOnce(Begin(mux[m]), post)
    /\ \A post \in MuxerOps(Begin(mux[m])) : EndsOnce(Begin(mux[m]), post)
    /\ \A i \in DOMAIN mux[m].streams : FullyEnded(mux[m], i) => i \notin Streams(mux[m])

\* A receiver whose source an inbound CLOSE has ended is registered next to a
\* stream that has fully ended: closeWrite on the first calls onStreamEnd once
\* and takes it out of the registry.
C18_Witness ==
  \E m \in Muxers : \E id \in DOMAIN mux[m].receivers :
    LET i == mux[m].receivers[id]
        post == CloseWrite(Begin(mux[m]), i)
    IN /\ mux[m].streams[i].sourceEnded /\ ~mux[m].streams[i].sinkEnded
       /\ post.events = <<[ev |-> "onStreamEnd", stream |-> i]>>
       /\ i \notin Streams(post)
       /\ \E j \in DOMAIN mux[m].streams : FullyEnded(mux[m], j)

\* The frames that are no NEW_STREAM, of the _RECEIVER family (types 1, 3, 5) and
\* of the _INITIATOR family (types 2, 4, 6).
ReceiverFamily == {MESSAGE_RECEIVER, CLOSE_RECEIVER, RESET_RECEIVER}
InitiatorFamily == {MESSAGE_INITIATOR, CLOSE_INITIATOR, RESET_INITIATOR}

\* Dispatching frame f on muxer pre touches at most the stream registered under
\* f.id in the map of f's family: every other stream, and the other map, are as
\* they were; with no stream under the id in that map nothing changes at all.
RoutesTo(pre, f, own, other) ==
  LET r == HandleIncoming(pre, f)
  IN /\ r.out = "return"
     /\ other[r.mx] = other[pre]
     /\ \A j \in DOMAIN pre.streams :
          (f.id \in DOMAIN own[pre] /\ own[pre][f.id] = j) \/ r.mx.streams[j] = pre.streams[j]
     /\ f.id \notin DOMAIN own[pre] => r.mx = pre
     /\ (f.id \in DOMAIN own[pre] /\ f.type \in {CLOSE_RECEIVER, CLOSE_INITIATOR})
          => r.mx.streams[own[pre][f.id]].sourceEnded

\* C19: in every reachable state, a frame of type 1, 3 or 5 acts on the stream
\* the initiators map holds under its id and on nothing else, a frame of type 2,
\* 4 or 6 on the stream the receivers map holds under its id and on nothing else.
C19_InboundRouting ==
  \A m \in Muxers : \A f \in InFrames(mux[m].init) :
    LET pre == Begin(mux[m])
        r == HandleIncoming(pre, f)
        ini == [x \in {pre, r.mx} |-> x.initiators]
        rcv == [x \in {pre, r.mx} |-> x.receivers]
    IN /\ ReceiverFamily = {1, 3, 5} /\ InitiatorFamily = {2, 4, 6}
       /\ f.type \in ReceiverFamily => RoutesTo(pre, f, ini, rcv)
       /\ f.type \in InitiatorFamily => RoutesTo(pre, f, rcv, ini)

\* An initiator and a receiver are registered under the same id, both open: a
\* RESET_RECEIVER for the id ends the initiator and leaves the receiver as it is.
C19_Witness ==
  \E m \in Muxers : \E id \in DOMAIN mux[m].initiators \cap DOMAIN mux[m].receivers :
    LET i == mux[m].initiators[id]
        j == mux[m].receivers[id]
        r == HandleIncoming(Begin(mux[m]), Msg(id, RESET_RECEIVER, FALSE, <<>>))
    IN /\ ~mux[m].streams[i].sourceEnded /\ ~mux[m].streams[j].sourceEnded
       /\ ~mux[m].streams[i].sinkEnded /\ ~mux[m].streams[j].sinkEnded
       /\ FullyEnded(r.mx, i)
       /\ r.mx.streams[j] = mux[m].streams[j]
       /\ j \in Streams(r.mx) /\ i \notin Streams(r.mx)

\* C20: in every reachable state, a newStream call that fails with
\* TooManyOutboundStreams leaves the next id as it was, and a call that returns a
\* stream gives it the id one above the initiator ids handed out so far (the
\* number of initiator streams created).
C20_NextIdOnSuccess ==
  \A m \in Muxers : \A name \in AppNames :
    LET pre == Begin(mux[m])
        r == NewStream(pre, name)
        made == {i \in DOMAIN pre.streams : pre.streams[i].type = "initiator"}
    IN /\ r.err = "ERR_TOO_MANY_OUTBOUND_STREAMS" => r.mx.streamId = pre.streamId
       /\ r.err = "none" => r.mx.streams[Len(r.mx.streams)].id = Cardinality(made)

\* _handleIncoming throws on the message.
Throws(mx, msg) == HandleIncoming(mx, msg).out \notin {"await", "return"}

\* One link of the chain, from pre (a write in progress, about to dispatch) to
\* post: it dispatched the first of the messages left and nothing else; when it
\* was suspended on the rate limiter or more messages are left, the write stays
\* in progress with the rest of the messages; the callback comes with the last.
LinkInOrder(pre, post) ==
  /\ post.handled = <<Head(pre.batch)>>
  /\ post.pc # "idle" => post.batch = Tail(pre.batch)
  /\ post.pc = "idle" => Tail(pre.batch) = <<>>

\* The same, for a link whose _handleIncoming may throw: the chain is rejected,
\* the messages left are dropped undispatched and the callback gets the error.
LinkInOrderOrThrown(pre, post, threw) ==
  /\ post.handled = <<Head(pre.batch)>>
  /\ post.pc # "idle" => post.batch = Tail(pre.batch)
  /\ post.pc = "idle" => post.batch = <<>> /\ (Tail(pre.batch) = <<>> \/ threw)
  /\ threw => post.pc = "idle" /\ post.destroyed

\* The continuation of a link that was suspended on the rate limiter dispatches
\* nothing itself; the callback comes only when no message is left.
ResumeInOrder(pre, post) ==
  /\ post.handled = <<>>
  /\ post.batch = pre.batch
  /\ post.pc = "idle" <=> pre.batch = <<>>

\* While a write is in progress, a step leaves the decoder alone and the messages
\* left to dispatch are those of the step before, less the one it dispatched (or
\* none, once the chain has settled): no message of a later write enters.
NoLaterWrite ==
  \A m \in Muxers :
    mux[m].pc # "idle" =>
      /\ mux'[m].decoder = mux[m].decoder
      /\ \/ mux'[m].batch = mux[m].batch
         \/ mux[m].batch # <<>> /\ mux'[m].batch = Tail(mux[m].batch)
         \/ mux'[m].batch = <<>> /\ mux'[m].pc = "idle"

\* The links of the chains of every reachable state, by R: the first link of each
\* write the transport can make, the next link of a write in progress, the
\* continuation of a suspended link.
ChainLinks(R(_, _)) ==
  \A m \in Muxers :
    /\ CanWrite(mux[m]) =>
         \A c \in InChunks[mux[m].init] :
           LET pre == MuxWrite(Begin(mux[m]), c)
           IN pre.pc = "dispatch" => R(pre, FirstLink(pre))
    /\ mux[m].pc = "dispatch" => R(Begin(mux[m]), Dispatch(Begin(mux[m])))
    /\ mux[m].pc = "await" => ResumeInOrder(Begin(mux[m]), Resume(Begin(mux[m])))

\* The claim of C21 as it stands: the callback comes only after the last message
\* of the write was dispatched.
C21_DispatchOrdering ==
  /\ [](ChainLinks(LAMBDA pre, post : LinkInOrder(pre, post)))
  /\ [][NoLaterWrite]_vars

\* C21: the messages decoded from one muxer write are dispatched one at a time in
\* decode order; the write callback is invoked only after the last of them has
\* been dispatched (any wait on the rate limiter included) or with the error a
\* dispatch threw, in which case the messages after it are never dispatched and
\* the muxer is destroyed; no message of a later write is decoded or dispatched
\* before that callback.
C21_DispatchOrderingAmended ==
  /\ [](ChainLinks(LAMBDA pre, post :
                     LinkInOrderOrThrown(pre, post, Throws(pre, Head(pre.batch)))))
  /\ [][NoLaterWrite]_vars

\* A write of two messages is in progress: the first was dispatched and is
\* suspended on the rate limiter, the second is still to be dispatched.
C21_Witness ==
  \E m \in Muxers : mux[m].pc = "await" /\ Len(mux[m].batch) = 1

\* The types of the frames a stream of the given type sends.
OutboundTypes(type) ==
  IF type = "initiator"
  THEN {NEW_STREAM, MESSAGE_INITIATOR, CLOSE_INITIATOR, RESET_INITIATOR}
  ELSE {MESSAGE_RECEIVER, CLOSE_RECEIVER, RESET_RECEIVER}

\* Every frame of the list carries the id of stream s and a type of its direction.
LabelledFor(frames, s) ==
  \A k \in DOMAIN frames : frames[k].id = s.id /\ frames[k].type \in OutboundTypes(s.type)

\* The operations on stream i of muxer pre that may send: the writes, end, and
\* the calls that close, abort or reset it; each with its result.
SendingOps(pre, i) ==
  StreamOps(pre, i)
    \cup (IF Writable(pre.streams[i])
          THEN {StreamWrite(pre, i, WriteData(n)) : n \in WriteLens} ELSE {})

\* What dispatching frame f on muxer pre emits: the streams send nothing; the
\* muxer pushes at most one frame, which for a MESSAGE to a registered stream is
\* the reset of that stream, labelled for it.
InboundLabelled(pre, f, post) ==
  /\ post.sent = <<>>
  /\ Len(post.sink) <= 1
  /\ (post.sink # <<>> /\ f.type # NEW_STREAM) =>
        /\ f.type \in {MESSAGE_INITIATOR, MESSAGE_RECEIVER}
        /\ f.id \in DOMAIN RouteList(pre, f.type)
        /\ post.sink[1].type \in {RESET_INITIATOR, RESET_RECEIVER}
        /\ LabelledFor(post.sink, pre.streams[RouteList(pre, f.type)[f.id]])
        /\ post.sink[1].type = (IF f.type = MESSAGE_INITIATOR THEN RESET_RECEIVER
                                ELSE RESET_INITIATOR)

\* C22: in every reachable state, whichever operation comes next, every frame a
\* stream sends carries its own id and a type of its direction (NEW_STREAM,
\* MESSAGE_INITIATOR, CLOSE_INITIATOR, RESET_INITIATOR for an initiator;
\* MESSAGE_RECEIVER, CLOSE_RECEIVER, RESET_RECEIVER for a receiver), and so does
\* the reset the muxer sends for a stream whose buffer is full (RESET_RECEIVER on
\* MESSAGE_INITIATOR, RESET_INITIATOR on MESSAGE_RECEIVER).
C22_OutboundLabels ==
  \A m \in Muxers :
    LET pre == Begin(mux[m])
    IN /\ \A i \in DOMAIN pre.streams : \A post \in SendingOps(pre, i) :
            LabelledFor(post.sent, pre.streams[i]) /\ LabelledFor(post.sink, pre.streams[i])
       /\ \A name \in AppNames :
            LET r == NewStream(pre, name)
            IN IF r.err = "none"
               THEN /\ r.mx.sent # <<>>
                    /\ r.mx.streams[Len(r.mx.streams)].type = "initiator"
                    /\ LabelledFor(r.mx.sent, r.mx.streams[Len(r.mx.streams)])
                    /\ LabelledFor(r.mx.sink, r.mx.streams[Len(r.mx.streams)])
               ELSE r.mx.sent = <<>> /\ r.mx.sink = <<>>
       /\ \A f \in InFrames(pre.init) : InboundLabelled(pre, f, HandleIncoming(pre, f).mx)

\* An initiator and a receiver are registered, both writable, and the buffer of
\* one of them is full: a write on each sends a MESSAGE of its own direction, and
\* a MESSAGE for the full one is answered by a reset in the stream's direction.
C22_Witness ==
  \E m \in Muxers : \E a \in DOMAIN mux[m].initiators, b \in DOMAIN mux[m].receivers :
    LET pre == Begin(mux[m])
        i == pre.initiators[a]
        j == pre.receivers[b]
    IN /\ Writable(pre.streams[i]) /\ Writable(pre.streams[j])
       /\ StreamWrite(pre, i, WriteData(1)).sent = <<Msg(a, MESSAGE_INITIATOR, TRUE, WriteData(1))>>
       /\ StreamWrite(pre, j, WriteData(1)).sent = <<Msg(b, MESSAGE_RECEIVER, TRUE, WriteData(1))>>
       /\ HandleIncoming(pre, Msg(b, MESSAGE_INITIATOR, TRUE, InData(pre.init))).mx.sink
            = <<Msg(b, RESET_RECEIVER, FALSE, <<>>)>>

\* newStream(name) on muxer pre returned a stream: the stream is new, an
\* initiator under the id the call took, and the call pushed exactly one frame to
\* the transport, the NEW_STREAM of that id with the name (the decimal id when no
\* name is given), before any other frame of the stream.
StartsWithNewStream(pre, name, post) ==
  LET i == Len(post.streams)
      id == pre.streamId
  IN /\ i = Len(pre.streams) + 1
     /\ post.streams[i].id = id /\ post.streams[i].type = "initiator"
     /\ post.initiators[id] = i
     /\ post.sink = <<Msg(id, NEW_STREAM, TRUE, IF name = <<>> THEN Digits(id) ELSE name)>>

\* C23: in every reachable state, a newStream call that returns a stream emits
\* exactly one NEW_STREAM frame with the stream's id and name inside the call,
\* ahead of every other frame of that stream, and an inbound NEW_STREAM that
\* registers a receiver stream emits no frame.
C23_StreamStart ==
  \A m \in Muxers :
    LET pre == Begin(mux[m])
    IN /\ \A name \in AppNames :
            LET r == NewStream(pre, name)
            IN r.err = "none" => StartsWithNewStream(pre, name, r.mx)
       /\ \A f \in InOpens(pre.init) :
            LET r == HandleIncoming(pre, f)
            IN Len(r.mx.streams) > Len(pre.streams) => r.mx.sink = <<>> /\ r.mx.sent = <<>>

\* C24: in every reachable state the receivers map of a muxer holds no more than
\* maxInboundStreams streams.
C24_ReceiversWithinCap ==
  \A m \in Muxers : Cardinality(DOMAIN mux[m].receivers) <= mux[m].init.maxInboundStreams

\* The receivers map is full and the dispatch of one more NEW_STREAM, which was
\* turned away, is suspended on the rate limiter.
C24_Witness ==
  \E m \in Muxers :
    /\ Cardinality(DOMAIN mux[m].receivers) = mux[m].init.maxInboundStreams
    /\ mux[m].init.maxInboundStreams > 0
    /\ mux[m].pc = "await" /\ mux[m].limiter > 0

\* stream.end() as the application calls it: the Writable runs final once, and
\* not on a stream that is destroyed or has been ended before.
EndCall(mx, i) == IF Writable(mx.streams[i]) THEN StreamEnd(mx, i) ELSE mx

\* One of the calls that close the write side of stream i.
CloseCall(mx, i, call) ==
  CASE call = "end" -> EndCall(mx, i)
    [] call = "closeWrite" -> CloseWrite(mx, i)
    [] call = "close" -> StreamClose(mx, i)

RECURSIVE CloseCalls(_, _, _)
\* A sequence of such calls, one after the other; sent keeps what all of them sent.
CloseCalls(mx, i, calls) ==
  IF calls = <<>> THEN mx ELSE CloseCalls(CloseCall(mx, i, Head(calls)), i, Tail(calls))

\* The longest sequence of calls tried, and the sequences.
MaxCalls == 3
CallSeqs == UNION {[1..n -> {"end", "closeWrite", "close"}] : n \in 1..MaxCalls}

\* The CLOSE frames among the frames sent.
CloseFrames(frames) ==
  {k \in DOMAIN frames : frames[k].type \in {CLOSE_INITIATOR, CLOSE_RECEIVER}}

\* C25: in every reachable state, on a stream whose sink is open (it has sent no
\* CLOSE so far, as each CLOSE is sent together with the end of the sink), every
\* sequence of end, closeWrite and close calls sends at most one CLOSE frame.
C25_OneClose ==
  \A m \in Muxers : \A i \in DOMAIN mux[m].streams :
    ~mux[m].streams[i].sinkEnded =>
      \A calls \in CallSeqs :
        Cardinality(CloseFrames(CloseCalls(Begin(mux[m]), i, calls).sent)) <= 1

\* stream.write(data) as the application calls it: the Writable hands the data to
\* the write handler unless the stream is destroyed or end() was called.
WriteCall(mx, i, data) == IF Writable(mx.streams[i]) THEN StreamWrite(mx, i, data) ELSE mx

\* The MESSAGE frames among the frames sent.
MessageFrames(frames) ==
  {k \in DOMAIN frames : frames[k].type \in {MESSAGE_INITIATOR, MESSAGE_RECEIVER}}

\* C26: in every reachable state, a write to a stream whose sink has ended sends
\* no MESSAGE frame.
C26_NoMessageAfterSinkEnd ==
  \A m \in Muxers : \A i \in DOMAIN mux[m].streams :
    mux[m].streams[i].sinkEnded =>
      \A n \in WriteLens :
        MessageFrames(WriteCall(Begin(mux[m]), i, WriteData(n)).sent) = {}

\* The inbound MESSAGE frames.
InMessages(init) ==
  {f \in InFrames(init) : f.type \in {MESSAGE_INITIATOR, MESSAGE_RECEIVER}}

\* C27: in every reachable state, a MESSAGE frame dispatched to a registered
\* stream whose source has ended (EOF pushed) and whose sink is open makes no push
\* on the readable side after the EOF: the buffer is as it was and the Readable
\* is not given a chunk after its EOF.
C27_NoPushAfterEof ==
  \A m \in Muxers : \A f \in InMessages(mux[m].init) :
    LET pre == Begin(mux[m])
        list == RouteList(pre, f.type)
    IN f.id \in DOMAIN list =>
         LET i == list[f.id]
             post == HandleIncoming(pre, f).mx
         IN (pre.streams[i].sourceEnded /\ pre.streams[i].eof /\ ~pre.streams[i].sinkEnded)
              => /\ post.streams[i].rbuf = pre.streams[i].rbuf
                 /\ post.streams[i].destroyErr # "ERR_STREAM_PUSH_AFTER_EOF"

\* The muxer has destroyed itself on a rejected consume and messages of the
\* write in progress are still to be dispatched.
DestroyedInBatch(mx) ==
  mx.destroyed /\ mx.destroyErr = "Too many open streams" /\ mx.pc = "dispatch"

\* C28: in every reachable state where the muxer has destroyed itself with
\* TooManyOpenStreams and messages of the same write are left, the next link of
\* the chain registers no receiver stream, invokes no onIncomingStream, pushes no
\* data into a stream and emits no frame.
C28_BatchStopsAtDestroy ==
  \A m \in Muxers :
    DestroyedInBatch(mux[m]) =>
      LET pre == Begin(mux[m])
          post == Dispatch(pre)
      IN /\ post.receivers = pre.receivers
         /\ post.events = <<>>
         /\ post.streams = pre.streams
         /\ post.sink = <<>>

====
